---------------------------- MODULE Spec2Model ----------------------------
(***************************************************************************)
(* The LLM-driven control loop of webots-llm-robotcontroller:              *)
(* LLMRobotController.ask and what it drives (the LLMAdapter parser, the   *)
(* ActionAdapter executor and safety gate, the LLMChat history and the     *)
(* EventManager bus), as wired by main.py.                                 *)
(*                                                                         *)
(* Distances and angles are floats in the source; here they are integers   *)
(* of one unit (the comparisons of the source are kept as they are).       *)
(***************************************************************************)
EXTENDS Integers, Sequences, FiniteSets, TLC

(***************************************************************************)
(* Bounds of the model.                                                    *)
(***************************************************************************)
MaxIterations == 2      \* largest maxIterations argument passed to ask()
MaxParameter == 2       \* largest "parameters" value in a model reply
MaxRange == 2           \* largest range reading of the lidar
MaxLidarLen == 2        \* longest lidar snapshot

(***************************************************************************)
(* The threads that call ask(): main.py hands every key handler to the     *)
(* KeyboardController's thread pool, so two presses of 'P' run two         *)
(* asyncio.run(llmController.ask(...)) calls on two threads.               *)
(***************************************************************************)
Callers == {"t1", "t2"}

SIMULATION_STARTED == "SIMULATION_STARTED"
SIMULATION_ABORTED == "SIMULATION_ABORTED"
END_OF_SIMULATION == "END_OF_SIMULATION"
SENDING_MESSAGE_TO_LLM == "SENDING_MESSAGE_TO_LLM"
MESSAGE_RECEIVED_FROM_LLM == "MESSAGE_RECEIVED_FROM_LLM"
LLM_INVALID_JSON_SCHEMA == "LLM_INVALID_JSON_SCHEMA"
LLM_EXECUTING_ROBOT_ACTION == "LLM_EXECUTING_ROBOT_ACTION"
LLM_ROBOT_ACTION_FAILED == "LLM_ROBOT_ACTION_FAILED"
LLM_ROBOT_ACTION_COMPLETED == "LLM_ROBOT_ACTION_COMPLETED"
LLM_ROBOT_ACTION_ABORTED == "LLM_ROBOT_ACTION_ABORTED"
LLM_DANGEROUS_ACTION == "LLM_DANGEROUS_ACTION"
LLM_MAX_ITERATIONS_REACHED == "LLM_MAX_ITERATIONS_REACHED"
LLM_TOO_MANY_INVALID_JSON == "LLM_TOO_MANY_INVALID_JSON"
LLM_GOAL_COMPLETED == "LLM_GOAL_COMPLETED"
SIMULATION_STEP == "SIMULATION_STEP"

\* The members of EventType that some code of the repository notifies or
\* subscribes to.
EventType ==
    { SIMULATION_STARTED, SIMULATION_ABORTED, END_OF_SIMULATION,
      SENDING_MESSAGE_TO_LLM, MESSAGE_RECEIVED_FROM_LLM,
      LLM_INVALID_JSON_SCHEMA, LLM_EXECUTING_ROBOT_ACTION,
      LLM_ROBOT_ACTION_FAILED, LLM_ROBOT_ACTION_COMPLETED,
      LLM_ROBOT_ACTION_ABORTED, LLM_DANGEROUS_ACTION,
      LLM_MAX_ITERATIONS_REACHED, LLM_TOO_MANY_INVALID_JSON,
      LLM_GOAL_COMPLETED, SIMULATION_STEP }

VARIABLES
    observers,        \* EventManager._observers: event type -> handlers, in subscription order
    sessionLock,      \* LLMRobotController.sessionLock is held
    simulationLock,   \* main.py's simulationLock is held
    chat,             \* LLMChat.chat: the messages of the history
    system_instruction, \* LLMChat.system_instruction: None or the instruction text
    pc,               \* where each caller's ask() stands
    maxIterations,    \* ask's argument
    iterations,       \* ask's local
    response,         \* ask's local: the last Result returned by LLMAdapter.iterate
    raising,          \* an exception is propagating out of ask's except clause
    events,           \* the event types this call of ask() has passed to notify since
                      \* its last operation on sessionLock (lines 41 and 101), in order
    llmCalls,         \* calls of LLMChat.send_message made by this call of ask()
    lidarRead,        \* the snapshot returned by the last getLidarImage(30, 0) of this call
    actionState,      \* "none", "started" (execute() called), "finished" (execute() over)
                      \* or "worker raised" (over, the robot method having raised)
    stopCalls,        \* calls of robot.stop() since the last execute() began
    actuations,       \* robot motion methods started by this call of ask()
    error,            \* text of the exception caught by ask's except clause, or "none"
    result,           \* how the last call of ask() by this caller ended
    abortRaised,      \* an ABORT event was raised on the bus during the running session
    gateAction,       \* checkSafety's argument `action`, when called on its own
    gateLidar,        \* checkSafety's argument `lidar`, when called on its own
    gateVerdict,      \* << >>, or << v >> for the value v checkSafety returned
    sendPc,           \* send_message called on its own: "idle", or "invoke" (in its loop)
    tries,            \* send_message's local
    invocations,      \* calls of llm.ainvoke made by the last call of send_message
    modelOutcomes,    \* what these calls did: "ok", "RateLimitError" or "Error", in order
    passed,           \* the history handed to the last llm.ainvoke
    sendResult,       \* how the last send_message ended: "returned" or the exception raised
    parseText,        \* the reply text handed to iterate's parsing steps on their own
    parseResult,      \* << >>, or << r >> for the Result r these steps returned
    keyOrder,         \* an EventManager used on its own: the keys of _observers, in
                      \* the order the dict got them
    calls,            \* the handlers the last notify called, in order
    busExc,           \* what the last notify raised, or "none"
    lastNotify,       \* the event type of the last notify and the list
                      \* _observers[eventType] as it was when notify began
    removed,          \* the handlers unsubscribe() returned for and that were not
                      \* subscribed again since
    batchLock,        \* main.py's batchLock is held
    batchPc,          \* where each call of start_simulation_batch stands
    batchResult,      \* how each caller's last start_simulation_batch went
    batchRuns,        \* calls of llmController.ask made by the batch
    wheelCall,        \* PR2WheelSystem: the method called, moveForward or rotate
    wheelTarget,      \* reach's targetValue
    wheelAdvance,     \* what one simulation step adds to the value reach measures
    wheelActual,      \* reach's actualValue
    wheelSpeed,       \* the speed set on the wheels: "zero" or "moving"
    wheelPc           \* "idle", "reach" (in the loop of reach) or "done" (returned)

ctrlVars == << observers, sessionLock, simulationLock, chat, system_instruction,
               pc, maxIterations, iterations, response, raising, events,
               llmCalls, lidarRead, actionState, stopCalls, actuations, error,
               result, abortRaised >>

gateVars == << gateAction, gateLidar, gateVerdict >>

sendVars == << sendPc, tries, invocations, modelOutcomes, passed, sendResult >>

\* The controller's variables other than the chat's.
askVars == << observers, sessionLock, simulationLock, pc, maxIterations, iterations,
              response, raising, events, llmCalls, lidarRead, actionState,
              stopCalls, actuations, error, result, abortRaised >>

parseVars == << parseText, parseResult >>

busVars == << keyOrder, calls, busExc, lastNotify, removed >>

batchVars == << batchLock, batchPc, batchResult, batchRuns >>

wheelVars == << wheelCall, wheelTarget, wheelAdvance, wheelActual, wheelSpeed, wheelPc >>

vars == << ctrlVars, gateVars, sendVars, parseVars, busVars, batchVars, wheelVars >>

(***************************************************************************)
(* LLMChat: the history.                                                   *)
(***************************************************************************)
PruneThreshold == 4

None == "None"

\* The texts set_system_instruction is called with.
Instructions == { "instruction", "other instruction" }

\* common.utils.llm.create_sys_message
create_sys_message(text) == [ role |-> "system", content |-> text ]

\* The user turn built by LLMAdapter.iterate and the answer of the model.
UserMessage == [ role |-> "user", content |-> "prompt" ]

AnswerMessage == [ role |-> "ai", content |-> "answer" ]

\* LLMChat.clear_chat
clear_chat(sys) == IF sys # None THEN << create_sys_message(sys) >> ELSE << >>

\* A pruning that deletes the first two messages instead.
AppendUserDropHead(h) ==
    LET h1 == Append(h, UserMessage)
    IN  IF Len(h1) = PruneThreshold THEN << h1[3], h1[4] >> ELSE h1

\* LLMChat.send_message, lines 35-37: the user turn is appended, and a history
\* of exactly PruneThreshold messages loses its 2nd and 3rd (del chat[1:3]).
AppendUser(h) ==
    LET h1 == Append(h, UserMessage)
    IN  IF Len(h1) = PruneThreshold THEN << h1[1], h1[4] >> ELSE h1

\* LLMChat.send_message, line 53: the answer is appended.
AppendAnswer(h) == Append(h, AnswerMessage)

(***************************************************************************)
(* LLMAdapter: the parser.  A reply text is described by what the parser   *)
(* looks at:                                                               *)
(*   form        "garbage": no fenced block and no JSON; "bare": a JSON    *)
(*               text; "fenced": a JSON text between ```json\n and ```     *)
(*   prose       other text stands before or after it                      *)
(*   backticks   a string of the JSON text holds ```                       *)
(*   json        the JSON value is an "object" or another "value"          *)
(*   goal        the object has goal and scene_description, both strings   *)
(*   reasoning   the object has reasoning, a string                        *)
(*   command     action.command, a string                                  *)
(*   paramKind   action.parameters is a "number", a "huge" integer (beyond *)
(*               the range of a float) or a "string"                       *)
(*   parameters  the number, when paramKind is "number"                    *)
(***************************************************************************)
Commands == { "FRONT", "BACK", "ROTATE_LEFT", "ROTATE_RIGHT", "COMPLETE", "JUMP" }

\* A dispatch table that knows every command but COMPLETE.
actionMapAll == Commands \ { "COMPLETE" }

\* ActionAdapter.actionMap
actionMap == { "FRONT", "BACK", "ROTATE_LEFT", "ROTATE_RIGHT" }

Parameters == 0 .. MaxParameter

Text(form, prose, backticks, json, goal, reasoning, command, paramKind, parameters) ==
    [ form |-> form, prose |-> prose, backticks |-> backticks, json |-> json,
      goal |-> goal, reasoning |-> reasoning, command |-> command,
      paramKind |-> paramKind, parameters |-> parameters ]

\* A reply without prose and without ``` in its strings, an object with
\* goal, scene_description and a number for action.parameters.
Reply(form, reasoning, command, parameters) ==
    Text(form, FALSE, FALSE, "object", TRUE, reasoning, command, "number", parameters)

\* What the model stub may answer in the control loop.
ModelCommands == { "FRONT", "BACK", "COMPLETE", "JUMP" }

\* Only FRONT's parameter is looked at before the action runs; the schema
\* takes any number for it, a negative one too.
ModelReplies ==
    { Reply("garbage", FALSE, "", 0), Reply("bare", FALSE, "FRONT", 1),
      Reply("bare", TRUE, "FRONT", 0 - 1) }
    \cup { Reply("bare", TRUE, "FRONT", p) : p \in Parameters }
    \cup { Reply("bare", TRUE, cmd, 1) : cmd \in ModelCommands \ { "FRONT" } }

\* Result.success / Result.failure
success(command, parameter) ==
    [ ok |-> TRUE, command |-> command, parameter |-> parameter, error |-> "none" ]

failure(err) ==
    [ ok |-> FALSE, command |-> "", parameter |-> 0, error |-> err ]

\* ask's local `response` before its first assignment.
NoResponse == failure("unset")

\* json.loads(text): the whole text has to be one JSON text.
json_loads(text) == text.form = "bare" /\ ~text.prose

\* re.search(r'```json\n(.*?)```', text).group(1): the text between the
\* opening fence and the first ``` after it; a ``` inside a string of the JSON
\* text ends the group there, and what is left is not JSON.
group1(text) ==
    [ text EXCEPT !.form = IF text.backticks THEN "garbage" ELSE "bare",
                  !.prose = FALSE ]

\* extractJSON, misc.py lines 4-13: the first fenced block if there is one;
\* otherwise the text itself, after json.loads(text) which raises on a text
\* that is not JSON.
extractJSON(text) ==
    IF text.form = "fenced" THEN [ raised |-> FALSE, text |-> group1(text) ]
    ELSE [ raised |-> ~json_loads(text), text |-> text ]

\* A validation that accepts everything.
validateLax(text) == TRUE

\* The keys the schema requires, line 63.
required == { "goal", "scene_description", "reasoning", "action" }

\* The keys of the object that hold a value of the type the schema gives them.
Keys(text) ==
    (IF text.goal THEN { "goal", "scene_description" } ELSE {})
    \cup (IF text.reasoning THEN { "reasoning" } ELSE {})
    \cup (IF text.paramKind \in { "number", "huge" } THEN { "action" } ELSE {})

\* jsonschema.validate(action_obj, responseSchema), lines 48-64: an object
\* with the required strings and an action whose command is a string and
\* whose parameters is a number (an integer of any size is one).
validate(text) ==
    /\ text.json = "object"
    /\ required \subseteq Keys(text)

\* LLMAdapter.iterate, lines 77-103, on the text the chat returned:
\* extract and json.loads (78-83), validate (86-90), construct (93-103),
\* where float() of an integer beyond the range of a float raises
\* OverflowError.
iterate(reply) ==
    LET e == extractJSON(reply)
    IN  IF e.raised \/ ~json_loads(e.text) THEN failure("InvalidJSON")
        ELSE IF ~validate(e.text) THEN failure("SchemaValidationError")
        ELSE IF e.text.paramKind = "huge" THEN failure("OverflowError")
        ELSE success(e.text.command, e.text.parameters)

(***************************************************************************)
(* ActionAdapter.checkSafety: np.min(lidar) < parameter for FRONT.         *)
(***************************************************************************)
RECURSIVE npMin(_)
npMin(lidar) ==
    IF Len(lidar) = 1 THEN lidar[1]
    ELSE LET m == npMin(Tail(lidar))
         IN  IF lidar[1] < m THEN lidar[1] ELSE m

\* A gate that lets everything through.
checkSafetyOff(action, lidar) == TRUE

\* A gate that also refuses a FRONT of exactly the smallest reading.
checkSafetyNonStrict(action, lidar) ==
    IF action.command = "FRONT" /\ npMin(lidar) <= action.parameter
    THEN FALSE
    ELSE TRUE

\* ActionAdapter.checkSafety
checkSafety(action, lidar) ==
    IF action.command = "FRONT" /\ npMin(lidar) < action.parameter
    THEN FALSE
    ELSE TRUE

Ranges == 1 .. MaxRange

\* The non-empty snapshots robot.getLidarImage(30, 0) may return.
LidarSnapshots ==
    UNION { [ 1 .. n -> Ranges ] : n \in 1 .. MaxLidarLen }

(***************************************************************************)
(* EventManager.  A delivery state is the log of the event types passed to *)
(* notify by the running call, the state of simulationLock, and the        *)
(* exception raised ("none" when none).                                    *)
(***************************************************************************)
Delivery(log, lock, exc) == [ log |-> log, lock |-> lock, exc |-> exc ]

\* One handler of main.py / LLMObserver.  LLMObserver's handlers record and
\* do not raise; main.py's lambdas acquire (non-blocking) and release
\* simulationLock, and Lock.release raises RuntimeError on an unlocked lock.
Handle(st, handler) ==
    CASE handler = "simulationLock.acquire" -> [ st EXCEPT !.lock = TRUE ]
      [] handler = "simulationLock.release" ->
            IF st.lock THEN [ st EXCEPT !.lock = FALSE ]
            ELSE [ st EXCEPT !.exc = "RuntimeError" ]
      [] OTHER -> st

RECURSIVE RunHandlers(_, _)
RunHandlers(st, handlers) ==
    IF handlers = << >> \/ st.exc # "none" THEN st
    ELSE RunHandlers(Handle(st, Head(handlers)), Tail(handlers))

\* EventManager.notify: self._observers[eventType] raises KeyError for a type
\* nobody subscribed to; a handler's exception ends the loop.
notify(st, eventType) ==
    LET st1 == [ st EXCEPT !.log = Append(@, eventType) ]
    IN  IF eventType \notin DOMAIN observers
        THEN [ st1 EXCEPT !.exc = "KeyError" ]
        ELSE RunHandlers(st1, observers[eventType])

\* Consecutive notify calls: the first exception ends the sequence.
RECURSIVE notifyAll(_, _)
notifyAll(st, eventTypes) ==
    IF eventTypes = << >> \/ st.exc # "none" THEN st
    ELSE notifyAll(notify(st, Head(eventTypes)), Tail(eventTypes))

\* An exception raised by a statement that follows the notifications of st.
ThenRaise(st, exc) == IF st.exc = "none" THEN [ st EXCEPT !.exc = exc ] ELSE st

\* The subscriptions of main.py: LLMObserver's (sim.py, lines 24-37), the
\* PR2Controller's step handler and the three lambdas of lines 180-182.
MainObservers ==
    [ t \in EventType |->
        CASE t = SIMULATION_STARTED -> << "LLMObserver", "simulationLock.acquire" >>
          [] t = END_OF_SIMULATION -> << "LLMObserver", "simulationLock.release" >>
          [] t = SIMULATION_ABORTED -> << "LLMObserver", "simulationLock.release" >>
          [] t = SIMULATION_STEP -> << "PR2Controller" >>
          [] OTHER -> << "LLMObserver" >> ]

\* EventManager.__init__: no subscription at all.
NoObservers == [ t \in {} |-> << >> ]

(***************************************************************************)
(* LLMRobotController.ask, one action per stretch of its code.             *)
(***************************************************************************)
\* A lock that never refuses.
LockAcquireAlways(held) == TRUE

\* threading.Lock.acquire(blocking=False) on a lock whose state is `held`.
LockAcquire(held) == ~held

\* asyncio.wait_for(actionTask, 30) raises TimeoutError only for a task that
\* is still pending when the timer is looked at.  ActionAdapter.execute has
\* no await: the task runs from start to end (thread start, join, stop) in
\* one step of the event loop, and wait_for finds it done.
ActionTimedOut == FALSE

\* The statement(s) whose notifications ended in delivery state st ran inside
\* ask's try block (lines 48-95): without an exception the call goes on at
\* `next`; with one, the except clause (lines 96-98) notifies
\* SIMULATION_ABORTED, and an exception of that notification propagates
\* through the finally clause.
InTry(c, st, next) ==
    IF st.exc = "none"
    THEN /\ events' = [ events EXCEPT ![c] = st.log ]
         /\ simulationLock' = st.lock
         /\ pc' = [ pc EXCEPT ![c] = next ]
         /\ UNCHANGED << error, raising >>
    ELSE LET h == notify(Delivery(st.log, st.lock, "none"), SIMULATION_ABORTED)
         IN  /\ events' = [ events EXCEPT ![c] = h.log ]
             /\ simulationLock' = h.lock
             /\ pc' = [ pc EXCEPT ![c] = "finally" ]
             /\ error' = [ error EXCEPT ![c] = st.exc ]
             /\ raising' = [ raising EXCEPT ![c] = (h.exc # "none") ]

Now(c) == Delivery(events[c], simulationLock, "none")

\* The locals of ask() that no code reads after line 101, and the counters
\* kept about the session, once the session is over (the exception caught,
\* `error`, is kept until ask() is left).
Blank(c) ==
    /\ maxIterations' = [ maxIterations EXCEPT ![c] = 0 ]
    /\ iterations' = [ iterations EXCEPT ![c] = 0 ]
    /\ response' = [ response EXCEPT ![c] = NoResponse ]
    /\ llmCalls' = [ llmCalls EXCEPT ![c] = 0 ]
    /\ lidarRead' = [ lidarRead EXCEPT ![c] = << >> ]
    /\ actionState' = [ actionState EXCEPT ![c] = "none" ]
    /\ stopCalls' = [ stopCalls EXCEPT ![c] = 0 ]
    /\ actuations' = [ actuations EXCEPT ![c] = 0 ]

\* Lines 41-47 and 103-104: the non-blocking acquire; on success the chat is
\* cleared and SIMULATION_STARTED notified, outside the try block.
AskCall(c, m) ==
    /\ pc[c] = "idle"
    /\ IF LockAcquire(sessionLock)
       THEN LET st == notify(Delivery(<< >>, simulationLock, "none"), SIMULATION_STARTED)
            IN  /\ sessionLock' = TRUE
                /\ chat' = clear_chat(system_instruction)
                /\ events' = [ events EXCEPT ![c] = st.log ]
                /\ simulationLock' = st.lock
                /\ pc' = [ pc EXCEPT ![c] = IF st.exc = "none" THEN "try" ELSE "idle" ]
                /\ result' = [ result EXCEPT ![c] =
                                 IF st.exc = "none" THEN "running" ELSE "raised" ]
                /\ maxIterations' = [ maxIterations EXCEPT ![c] =
                                        IF st.exc = "none" THEN m ELSE 0 ]
                /\ abortRaised' = FALSE
       ELSE /\ result' = [ result EXCEPT ![c] = "busy" ]
            /\ events' = [ events EXCEPT ![c] = << >> ]
            /\ UNCHANGED << sessionLock, chat, simulationLock, pc, maxIterations,
                            abortRaised >>
    /\ UNCHANGED << gateVars, parseVars, busVars, batchVars, wheelVars, sendVars, observers, system_instruction, iterations, response,
                    raising, llmCalls, lidarRead, actionState, stopCalls, actuations,
                    error >>

\* Line 49: the first SENDING_MESSAGE_TO_LLM.
FirstPrompt(c) ==
    /\ pc[c] = "try"
    /\ InTry(c, notify(Now(c), SENDING_MESSAGE_TO_LLM), "iterate")
    /\ UNCHANGED << gateVars, parseVars, busVars, batchVars, wheelVars, sendVars, abortRaised, observers, sessionLock, chat, system_instruction, maxIterations,
                    iterations, response, llmCalls, lidarRead, actionState,
                    stopCalls, actuations, result >>

\* The outcomes of LLMChat.send_message: a reply text, or an exception (the
\* rate limit after three tries, or any other error of the model client).
GatewayOutcomes ==
    { [ raised |-> FALSE, reply |-> r ] : r \in ModelReplies }
    \cup { [ raised |-> TRUE, reply |-> Reply("garbage", FALSE, "", 0) ] }

\* Lines 50-51, 68-69 and 77-78: await llmAdapter.iterate(prompt, image), then
\* MESSAGE_RECEIVED_FROM_LLM.
Iterate(c) ==
    /\ pc[c] = "iterate"
    /\ llmCalls' = [ llmCalls EXCEPT ![c] = @ + 1 ]
    /\ actionState' = [ actionState EXCEPT ![c] = "none" ]
    /\ lidarRead' = [ lidarRead EXCEPT ![c] = << >> ]
    /\ \E o \in GatewayOutcomes :
         IF o.raised
         THEN /\ chat' = AppendUser(chat)
              /\ UNCHANGED response
              /\ InTry(c, ThenRaise(Now(c), "ChatError"), "loop")
         ELSE /\ chat' = AppendAnswer(AppendUser(chat))
              /\ response' = [ response EXCEPT ![c] = iterate(o.reply) ]
              /\ InTry(c, notify(Now(c), MESSAGE_RECEIVED_FROM_LLM), "loop")
    /\ UNCHANGED << gateVars, parseVars, busVars, batchVars, wheelVars, sendVars, abortRaised, observers, sessionLock, system_instruction, maxIterations,
                    iterations, stopCalls, actuations, result >>

\* A loop test that allows one more iteration.
LoopConditionInclusive(c) ==
    /\ iterations[c] <= maxIterations[c]
    /\ ~(response[c].ok /\ response[c].command = "COMPLETE")

\* Line 52.
LoopCondition(c) ==
    /\ iterations[c] < maxIterations[c]
    /\ ~(response[c].ok /\ response[c].command = "COMPLETE")

\* Lines 52-56 and 73-83: the loop test and, in the loop, the safety gate and
\* the two re-prompt branches up to their SENDING_MESSAGE_TO_LLM.  The call of
\* line 83 passes three arguments to iterate(prompt, image): TypeError.
LoopStep(c) ==
    /\ pc[c] = "loop"
    /\ IF ~LoopCondition(c)
       THEN /\ pc' = [ pc EXCEPT ![c] = "after" ]
            /\ UNCHANGED << iterations, lidarRead, actionState, stopCalls, events,
                            simulationLock, error, raising >>
       ELSE /\ iterations' = [ iterations EXCEPT ![c] = @ + 1 ]
            /\ IF response[c].ok
               THEN \E lidar \in LidarSnapshots :
                      /\ lidarRead' = [ lidarRead EXCEPT ![c] = lidar ]
                      /\ IF checkSafety(response[c], lidar)
                         THEN /\ InTry(c, notify(Now(c), LLM_EXECUTING_ROBOT_ACTION),
                                       "execute")
                              /\ actionState' = [ actionState EXCEPT ![c] = "started" ]
                              /\ stopCalls' = [ stopCalls EXCEPT ![c] = 0 ]
                         ELSE /\ InTry(c, notifyAll(Now(c), << LLM_DANGEROUS_ACTION,
                                                              SENDING_MESSAGE_TO_LLM >>),
                                       "iterate")
                              /\ UNCHANGED << actionState, stopCalls >>
               ELSE /\ InTry(c, ThenRaise(notifyAll(Now(c), << LLM_INVALID_JSON_SCHEMA,
                                                               SENDING_MESSAGE_TO_LLM >>),
                                          "TypeError"),
                             "iterate")
                    /\ UNCHANGED << lidarRead, actionState, stopCalls >>
    /\ UNCHANGED << gateVars, parseVars, busVars, batchVars, wheelVars, sendVars, abortRaised, observers, sessionLock, chat, system_instruction, maxIterations,
                    response, llmCalls, actuations, result >>

\* The robot method on the worker thread of ActionAdapter.execute, lines
\* 37-39, returns or raises a device error; threading.Thread prints the
\* exception of its target and ends, and join() returns either way.
WorkerOutcomes == { "ok", "DeviceError" }

\* Lines 57-72 with ActionAdapter.execute (lines 33-44): a command of the
\* actionMap runs on a thread that is joined (an exception of the robot method
\* ends the thread and is not seen by the caller), then robot.stop() and
\* SUCCESS; any other command is FAILURE at once.
Execute(c) ==
    /\ pc[c] = "execute"
    /\ lidarRead' = [ lidarRead EXCEPT ![c] = << >> ]
    /\ IF ActionTimedOut
       THEN /\ InTry(c, notify(Now(c), LLM_ROBOT_ACTION_ABORTED), "after")
            /\ actionState' = [ actionState EXCEPT ![c] = "finished" ]
            /\ UNCHANGED << actuations, stopCalls >>
       ELSE IF response[c].command \in actionMap
       THEN /\ \E worker \in WorkerOutcomes :
                 actionState' = [ actionState EXCEPT ![c] =
                                    IF worker = "ok" THEN "finished" ELSE "worker raised" ]
            /\ actuations' = [ actuations EXCEPT ![c] = @ + 1 ]
            /\ stopCalls' = [ stopCalls EXCEPT ![c] = @ + 1 ]
            /\ InTry(c, notifyAll(Now(c), << LLM_ROBOT_ACTION_COMPLETED,
                                             SENDING_MESSAGE_TO_LLM >>), "iterate")
       ELSE /\ InTry(c, notify(Now(c), LLM_ROBOT_ACTION_FAILED), "after")
            /\ actionState' = [ actionState EXCEPT ![c] = "finished" ]
            /\ UNCHANGED << actuations, stopCalls >>
    /\ UNCHANGED << gateVars, parseVars, busVars, batchVars, wheelVars, sendVars, abortRaised, observers, sessionLock, chat, system_instruction, maxIterations,
                    iterations, response, llmCalls, result >>

\* Lines 85-88.
Outcome(c) ==
    IF iterations[c] >= maxIterations[c] THEN << LLM_MAX_ITERATIONS_REACHED >>
    ELSE IF response[c].ok /\ response[c].command = "COMPLETE"
    THEN << LLM_GOAL_COMPLETED >>
    ELSE << >>

\* A session that is always reported aborted.
AbortionAlways(c) == << SIMULATION_ABORTED >>

\* Lines 90-95.
Abortion(c) ==
    IF ~response[c].ok THEN << SIMULATION_ABORTED >>
    ELSE IF iterations[c] >= maxIterations[c] THEN << SIMULATION_ABORTED >>
    ELSE IF response[c].ok /\ response[c].command # "COMPLETE"
    THEN << SIMULATION_ABORTED >>
    ELSE << >>

\* Lines 85-95, reached when the loop ends or breaks.
AfterLoop(c) ==
    /\ pc[c] = "after"
    /\ actionState' = [ actionState EXCEPT ![c] = "none" ]
    /\ InTry(c, notifyAll(Now(c), Outcome(c) \o Abortion(c)), "finally")
    /\ UNCHANGED << gateVars, parseVars, busVars, batchVars, wheelVars, sendVars, abortRaised, observers, sessionLock, chat, system_instruction, maxIterations,
                    iterations, response, llmCalls, lidarRead, stopCalls,
                    actuations, result >>

\* Line 101: the session is over, and so is the record of its events.
Release(c) ==
    /\ pc[c] = "finally"
    /\ sessionLock' = FALSE
    /\ pc' = [ pc EXCEPT ![c] = "end" ]
    /\ events' = [ events EXCEPT ![c] = << >> ]
    /\ Blank(c)
    /\ abortRaised' = FALSE
    /\ UNCHANGED << gateVars, parseVars, busVars, batchVars, wheelVars, sendVars, observers, simulationLock, chat, system_instruction,
                    raising, result, error >>

\* Line 102, after which ask() returns, or raises what the except clause or
\* this notification raised.
EndNotify(c) ==
    /\ pc[c] = "end"
    /\ LET st == notify(Now(c), END_OF_SIMULATION)
       IN  /\ events' = [ events EXCEPT ![c] = st.log ]
           /\ simulationLock' = st.lock
           /\ result' = [ result EXCEPT ![c] =
                            IF st.exc # "none" \/ raising[c] THEN "raised"
                            ELSE "returned" ]
    /\ pc' = [ pc EXCEPT ![c] = "idle" ]
    /\ raising' = [ raising EXCEPT ![c] = FALSE ]
    /\ error' = [ error EXCEPT ![c] = "none" ]
    /\ UNCHANGED << gateVars, parseVars, busVars, batchVars, wheelVars, sendVars, abortRaised, observers, sessionLock, chat, system_instruction, maxIterations,
                    iterations, response, llmCalls, lidarRead, actionState,
                    stopCalls, actuations >>

\* Somebody raises an ABORT event while a session runs.  EventType has no
\* member ABORT and ask() subscribes to nothing and reads no flag: lines 41-102
\* hold no state an abort could change.
Abort ==
    /\ \E c \in Callers : pc[c] \in { "try", "iterate", "loop", "execute", "after" }
    /\ ~abortRaised
    /\ abortRaised' = TRUE
    /\ UNCHANGED << gateVars, parseVars, busVars, batchVars, wheelVars, sendVars, observers, sessionLock, simulationLock, chat,
                    system_instruction, pc, maxIterations, iterations, response,
                    raising, events, llmCalls, lidarRead, actionState, stopCalls,
                    actuations, error, result >>

\* The state after main.py, lines 113-182, for an EventManager with the
\* subscriptions obs.
InitWith(obs) ==
    /\ observers = obs
    /\ sessionLock = FALSE
    /\ simulationLock = FALSE
    /\ pc = [ c \in Callers |-> "idle" ]
    /\ maxIterations = [ c \in Callers |-> 0 ]
    /\ iterations = [ c \in Callers |-> 0 ]
    /\ response = [ c \in Callers |-> NoResponse ]
    /\ raising = [ c \in Callers |-> FALSE ]
    /\ events = [ c \in Callers |-> << >> ]
    /\ llmCalls = [ c \in Callers |-> 0 ]
    /\ lidarRead = [ c \in Callers |-> << >> ]
    /\ actionState = [ c \in Callers |-> "none" ]
    /\ stopCalls = [ c \in Callers |-> 0 ]
    /\ actuations = [ c \in Callers |-> 0 ]
    /\ error = [ c \in Callers |-> "none" ]
    /\ result = [ c \in Callers |-> "none" ]
    /\ abortRaised = FALSE

\* main.py, line 124: set_system_instruction(readSystemInstruction()).
MainChat ==
    /\ system_instruction = "instruction"
    /\ chat = clear_chat("instruction")

NoSend ==
    /\ sendPc = "idle"
    /\ tries = 0
    /\ invocations = 0
    /\ modelOutcomes = << >>
    /\ passed = << >>
    /\ sendResult = "none"

NoNotify == [ type |-> "none", before |-> << >> ]

NoBus ==
    /\ keyOrder = << >>
    /\ calls = << >>
    /\ busExc = "none"
    /\ lastNotify = NoNotify
    /\ removed = {}

\* The threads of the keyboard handler's executor that run the G handler.
BatchCallers == { "g1", "g2", "g3" }

\* main.py, line 134: batchLock = Lock().
NoBatch ==
    /\ batchLock = FALSE
    /\ batchPc = [ g \in BatchCallers |-> "idle" ]
    /\ batchResult = [ g \in BatchCallers |-> "none" ]
    /\ batchRuns = 0

NoWheels ==
    /\ wheelCall = "none"
    /\ wheelTarget = 0
    /\ wheelAdvance = 1
    /\ wheelActual = 0
    /\ wheelSpeed = "zero"
    /\ wheelPc = "idle"

NoParse ==
    /\ parseText = Reply("garbage", FALSE, "", 0)
    /\ parseResult = << >>

NoGate ==
    /\ gateAction = NoResponse
    /\ gateLidar = << >>
    /\ gateVerdict = << >>

Init == InitWith(MainObservers) /\ MainChat /\ NoGate /\ NoSend /\ NoParse /\ NoBus /\ NoBatch /\ NoWheels

Next ==
    \/ Abort
    \/ \E c \in Callers :
        \/ \E m \in 0 .. MaxIterations : AskCall(c, m)
        \/ FirstPrompt(c)
        \/ Iterate(c)
        \/ LoopStep(c)
        \/ Execute(c)
        \/ AfterLoop(c)
        \/ Release(c)
        \/ EndNotify(c)

Spec == Init /\ [][Next]_vars

\* The same controller on an EventManager as main.py wires it, or on a new
\* EventManager() nothing has subscribed to.
InitAnyBus ==
    /\ \E obs \in { MainObservers, NoObservers } : InitWith(obs)
    /\ MainChat /\ NoGate /\ NoSend /\ NoParse /\ NoBus /\ NoBatch /\ NoWheels

SpecAnyBus == InitAnyBus /\ [][Next]_vars

(***************************************************************************)
(* ActionAdapter.checkSafety called on its own, on every action and every  *)
(* snapshot of the bounds.                                                 *)
(***************************************************************************)
InitSafety ==
    /\ InitWith(MainObservers) /\ MainChat /\ NoSend /\ NoParse /\ NoBus /\ NoBatch /\ NoWheels
    /\ gateAction \in { success(cmd, p) : cmd \in Commands, p \in Parameters }
    /\ gateLidar \in LidarSnapshots
    /\ gateVerdict = << >>

CheckSafetyCall ==
    /\ gateVerdict = << >>
    /\ gateVerdict' = << checkSafety(gateAction, gateLidar) >>
    /\ UNCHANGED << ctrlVars, sendVars, parseVars, busVars, batchVars, wheelVars, gateAction, gateLidar >>

SpecSafety == InitSafety /\ [][CheckSafetyCall]_vars

(***************************************************************************)
(* The parsing steps of LLMAdapter.iterate called on their own, on every   *)
(* reply text of the bounds.                                               *)
(***************************************************************************)
\* The texts with something to parse in them, and one without.
Texts ==
    { Text(form, prose, backticks, json, goal, reasoning, cmd, kind, p) :
        form \in { "bare", "fenced" }, prose \in BOOLEAN, backticks \in BOOLEAN,
        json \in { "object", "value" }, goal \in BOOLEAN, reasoning \in BOOLEAN,
        cmd \in { "FRONT", "COMPLETE", "JUMP" },
        kind \in { "number", "huge", "string" }, p \in Parameters }
    \cup { Reply("garbage", FALSE, "", 0) }

InitParser ==
    /\ InitWith(MainObservers) /\ MainChat /\ NoGate /\ NoSend /\ NoBus /\ NoBatch /\ NoWheels
    /\ parseText \in Texts
    /\ parseResult = << >>

IterateCall ==
    /\ parseResult = << >>
    /\ parseResult' = << iterate(parseText) >>
    /\ UNCHANGED << ctrlVars, gateVars, sendVars, parseText, busVars, batchVars, wheelVars >>

SpecParser == InitParser /\ [][IterateCall]_vars

(***************************************************************************)
(* An EventManager used on its own: subscribe, unsubscribe and notify in   *)
(* any order, with handlers that only record the call ("h1", "h2") and one *)
(* that unsubscribes itself when it is called ("u": the step handler of    *)
(* WBMotor.setPositionByPercentage once the position is reached).          *)
(***************************************************************************)
MaxSubscriptions == 3

Handlers == { "h1", "h2", "u" }

SelfUnsubscribing == { "u" }

BusTypes == { SIMULATION_STEP, SIMULATION_ABORTED }

Range(seq) == { seq[i] : i \in DOMAIN seq }

\* list.remove(h): the first occurrence goes, the order of the rest stays.
Remove(seq, h) ==
    LET k == CHOOSE i \in DOMAIN seq : seq[i] = h /\ \A j \in 1 .. i - 1 : seq[j] # h
    IN  [ i \in 1 .. Len(seq) - 1 |-> IF i < k THEN seq[i] ELSE seq[i + 1] ]

\* EventManager.subscribe, lines 8-11.
subscribe(obs, t, h) ==
    IF t \in DOMAIN obs
    THEN [ obs EXCEPT ![t] = Append(@, h) ]
    ELSE [ x \in DOMAIN obs \cup { t } |-> IF x = t THEN << h >> ELSE obs[x] ]

\* EventManager.unsubscribe, lines 13-17: the lists are visited in the order
\* of the dict; the first one that holds the handler loses its first
\* occurrence of it, and the loop breaks.
unsubscribe(obs, keys, h) ==
    LET holding == { k \in DOMAIN keys : h \in Range(obs[keys[k]]) }
    IN  IF holding = {} THEN obs
        ELSE LET k == CHOOSE i \in holding : \A j \in holding : i <= j
             IN  [ obs EXCEPT ![keys[k]] = Remove(@, h) ]

\* EventManager.notify, lines 20-21: `for observer in list` reads the list
\* by index, position i at the i-th turn, from the list as it is then; a
\* handler that unsubscribes itself shortens the list under the loop.
RECURSIVE deliver(_, _, _, _, _)
deliver(obs, keys, t, i, called) ==
    IF i > Len(obs[t]) THEN [ obs |-> obs, called |-> called ]
    ELSE LET h == obs[t][i]
             obs1 == IF h \in SelfUnsubscribing THEN unsubscribe(obs, keys, h) ELSE obs
         IN  deliver(obs1, keys, t, i + 1, Append(called, h))

Subscriptions(obs) ==
    LET RECURSIVE Sum(_)
        Sum(S) == IF S = {} THEN 0
                  ELSE LET t == CHOOSE x \in S : TRUE
                       IN  Len(obs[t]) + Sum(S \ { t })
    IN  Sum(DOMAIN obs)

\* Everything but the EventManager.
BusFrame ==
    UNCHANGED << sessionLock, simulationLock, chat, system_instruction, pc,
                 maxIterations, iterations, response, raising, events, llmCalls,
                 lidarRead, actionState, stopCalls, actuations, error, result,
                 abortRaised, gateVars, sendVars, parseVars, batchVars, wheelVars >>

Subscribe(t, h) ==
    /\ Subscriptions(observers) < MaxSubscriptions
    /\ observers' = subscribe(observers, t, h)
    /\ keyOrder' = IF t \in DOMAIN observers THEN keyOrder ELSE Append(keyOrder, t)
    /\ removed' = removed \ { h }
    /\ calls' = << >>
    /\ busExc' = "none"
    /\ lastNotify' = NoNotify
    /\ BusFrame

Unsubscribe(h) ==
    /\ observers' = unsubscribe(observers, keyOrder, h)
    /\ removed' = removed \cup { h }
    /\ calls' = << >>
    /\ busExc' = "none"
    /\ lastNotify' = NoNotify
    /\ UNCHANGED keyOrder
    /\ BusFrame

\* notify(t, data): self._observers[t] raises KeyError for a key the dict
\* never got.
Notify(t) ==
    /\ IF t \notin DOMAIN observers
       THEN /\ busExc' = "KeyError"
            /\ calls' = << >>
            /\ lastNotify' = [ type |-> t, before |-> << >> ]
            /\ UNCHANGED observers
       ELSE LET d == deliver(observers, keyOrder, t, 1, << >>)
            IN  /\ busExc' = "none"
                /\ calls' = d.called
                /\ lastNotify' = [ type |-> t, before |-> observers[t] ]
                /\ observers' = d.obs
    /\ UNCHANGED << keyOrder, removed >>
    /\ BusFrame

\* EventManager(): an empty dict.
InitBus == InitWith(NoObservers) /\ MainChat /\ NoGate /\ NoSend /\ NoParse /\ NoBus /\ NoBatch /\ NoWheels

NextBus ==
    \/ \E t \in BusTypes, h \in Handlers : Subscribe(t, h)
    \/ \E h \in Handlers : Unsubscribe(h)
    \/ \E t \in BusTypes : Notify(t)

SpecBus == InitBus /\ [][NextBus]_vars

(***************************************************************************)
(* main.py, start_simulation_batch (lines 155-168), called by the threads  *)
(* of the keyboard handler's executor.                                     *)
(***************************************************************************)
MaxRuns == 4

BatchFrame == UNCHANGED << ctrlVars, gateVars, sendVars, parseVars, busVars, wheelVars >>

\* Lines 157-163: the non-blocking acquire; a refused call returns at once.
StartBatch(g) ==
    /\ batchPc[g] = "idle"
    /\ IF LockAcquire(batchLock)
       THEN /\ batchLock' = TRUE
            /\ batchPc' = [ batchPc EXCEPT ![g] = "running" ]
            /\ batchResult' = [ batchResult EXCEPT ![g] = "started" ]
            /\ batchRuns' = 0
       ELSE /\ batchResult' = [ batchResult EXCEPT ![g] = "ignored" ]
            /\ UNCHANGED << batchLock, batchPc, batchRuns >>
    /\ BatchFrame

\* simulationBatch, line 99: one more run of the batch.
BatchRun(g) ==
    /\ batchPc[g] = "running"
    /\ batchRuns < MaxRuns
    /\ batchRuns' = batchRuns + 1
    /\ UNCHANGED << batchLock, batchPc, batchResult >>
    /\ BatchFrame

\* Lines 164-168: run_until_complete returns, or raises and the exception is
\* printed; the function ends, and no statement releases batchLock.
BatchEnd(g, outcome) ==
    /\ batchPc[g] = "running"
    /\ batchPc' = [ batchPc EXCEPT ![g] = "idle" ]
    /\ batchResult' = [ batchResult EXCEPT ![g] = outcome ]
    /\ UNCHANGED << batchLock, batchRuns >>
    /\ BatchFrame

InitBatch ==
    /\ InitWith(MainObservers) /\ MainChat /\ NoGate /\ NoSend /\ NoParse /\ NoBus
    /\ NoBatch /\ NoWheels

NextBatch ==
    \E g \in BatchCallers :
        \/ StartBatch(g)
        \/ BatchRun(g)
        \/ \E outcome \in { "returned", "error" } : BatchEnd(g, outcome)

SpecBatch == InitBatch /\ [][NextBatch]_vars

(***************************************************************************)
(* PR2WheelSystem.moveForward and rotate with a target, and the loop of    *)
(* reach (wheels.py, lines 90-120).  Lengths and angles are counted in     *)
(* units of half the TOLERANCE; the value reach measures,                  *)
(* deltaToCurrentValue(abs(currentValue - initialValue)), grows by         *)
(* wheelAdvance at every simulation step while the wheels turn.            *)
(***************************************************************************)
TOLERANCE == 2

MaxTarget == 6

MaxAdvance == 4

\* The measured values the model follows the loop up to.
MaxTravel == MaxTarget + TOLERANCE + MaxAdvance

WheelFrame == UNCHANGED << ctrlVars, gateVars, sendVars, parseVars, busVars, batchVars >>

Abs(x) == IF x < 0 THEN 0 - x ELSE x

\* Line 117: abs(actualValue - targetValue) < TOLERANCE.
Reached(actualValue, targetValue) == Abs(actualValue - targetValue) < TOLERANCE

\* Lines 91 and 102-103, then lines 115-116 of reach: the wheel speeds are
\* set, actualValue = deltaToCurrentValue(0).
MotionCall ==
    /\ wheelPc = "idle"
    /\ wheelSpeed' = "moving"
    /\ wheelActual' = 0
    /\ wheelPc' = "reach"
    /\ UNCHANGED << wheelCall, wheelTarget, wheelAdvance >>
    /\ WheelFrame

\* Lines 117-120: steppingFunction() returned a step and the target is not
\* reached: the value is measured again.
ReachStep ==
    /\ wheelPc = "reach"
    /\ ~Reached(wheelActual, wheelTarget)
    /\ wheelActual < MaxTravel
    /\ wheelActual' = wheelActual + wheelAdvance
    /\ UNCHANGED << wheelCall, wheelTarget, wheelAdvance, wheelSpeed, wheelPc >>
    /\ WheelFrame

\* Line 117 false on its second test, then lines 99 and 111-112: the speeds
\* are set to 0 and the method returns.
ReachEnd ==
    /\ wheelPc = "reach"
    /\ Reached(wheelActual, wheelTarget)
    /\ wheelSpeed' = "zero"
    /\ wheelPc' = "done"
    /\ UNCHANGED << wheelCall, wheelTarget, wheelAdvance, wheelActual >>
    /\ WheelFrame

\* Line 117 false on its first test: steppingFunction() returned -1, the
\* simulation is over.
SimulationOver ==
    /\ wheelPc = "reach"
    /\ wheelSpeed' = "zero"
    /\ wheelPc' = "stopped"
    /\ UNCHANGED << wheelCall, wheelTarget, wheelAdvance, wheelActual >>
    /\ WheelFrame

InitWheels ==
    /\ InitWith(MainObservers) /\ MainChat /\ NoGate /\ NoSend /\ NoParse /\ NoBus
    /\ NoBatch
    /\ wheelCall \in { "moveForward", "rotate" }
    /\ wheelTarget \in 0 .. MaxTarget
    /\ wheelAdvance \in 1 .. MaxAdvance
    /\ wheelActual = 0
    /\ wheelSpeed = "zero"
    /\ wheelPc = "idle"

NextWheels == MotionCall \/ ReachStep \/ ReachEnd \/ SimulationOver

SpecWheels == InitWheels /\ [][NextWheels]_vars

(***************************************************************************)
(* LLMChat used on its own, with its llm set: send_message step by step    *)
(* (one action per llm.ainvoke), clear_chat and the system instruction.    *)
(***************************************************************************)
MaxHistory == 6     \* send_message is not called on a longer history

\* One more try than send_message makes.
MaxTriesPlusOne == 3 + 1

MaxTries == 3

\* LLMChat.__init__
InitChat ==
    /\ InitWith(MainObservers) /\ NoGate /\ NoSend /\ NoParse /\ NoBus /\ NoBatch /\ NoWheels
    /\ system_instruction = None
    /\ chat = clear_chat(None)

\* send_message, lines 35-39.
SendStart ==
    /\ sendPc = "idle"
    /\ Len(chat) < MaxHistory
    /\ chat' = AppendUser(chat)
    /\ tries' = 0
    /\ invocations' = 0
    /\ modelOutcomes' = << >>
    /\ sendResult' = "none"
    /\ sendPc' = "invoke"
    /\ UNCHANGED << askVars, gateVars, parseVars, busVars, batchVars, wheelVars, system_instruction, passed >>

\* send_message, lines 40-54: one turn of the loop, the model doing o.
Invoke(o) ==
    /\ sendPc = "invoke"
    /\ tries < MaxTries
    /\ invocations' = invocations + 1
    /\ modelOutcomes' = Append(modelOutcomes, o)
    /\ passed' = chat
    /\ CASE o = "ok" ->
              /\ chat' = AppendAnswer(chat)
              /\ sendResult' = "returned"
              /\ sendPc' = "idle"
              /\ UNCHANGED tries
         [] o = "RateLimitError" ->
              /\ tries' = tries + 1
              /\ sendResult' = IF tries + 1 >= MaxTries THEN "RateLimitError" ELSE "none"
              /\ sendPc' = IF tries + 1 >= MaxTries THEN "idle" ELSE "invoke"
              /\ UNCHANGED chat
         [] OTHER ->
              /\ sendResult' = "Error"
              /\ sendPc' = "idle"
              /\ UNCHANGED << chat, tries >>
    /\ UNCHANGED << askVars, gateVars, parseVars, busVars, batchVars, wheelVars, system_instruction >>

\* LLMChat.clear_chat called by a client.
ClearChat ==
    /\ sendPc = "idle"
    /\ chat' = clear_chat(system_instruction)
    /\ UNCHANGED << askVars, gateVars, parseVars, busVars, batchVars, wheelVars, sendVars, system_instruction >>

\* LLMChat.set_system_instruction
SetSystemInstruction(text) ==
    /\ sendPc = "idle"
    /\ system_instruction' = text
    /\ chat' = clear_chat(text)
    /\ UNCHANGED << askVars, gateVars, parseVars, busVars, batchVars, wheelVars, sendVars >>

\* LLMChat.clear_system_instruction
ClearSystemInstruction ==
    /\ sendPc = "idle"
    /\ system_instruction' = None
    /\ chat' = clear_chat(None)
    /\ UNCHANGED << askVars, gateVars, parseVars, busVars, batchVars, wheelVars, sendVars >>

NextChat ==
    \/ SendStart
    \/ \E o \in { "ok", "RateLimitError", "Error" } : Invoke(o)
    \/ ClearChat
    \/ \E text \in Instructions : SetSystemInstruction(text)
    \/ ClearSystemInstruction

SpecChat == InitChat /\ [][NextChat]_vars

(***************************************************************************)
(* Properties.                                                             *)
(***************************************************************************)
Count(log, e) == Cardinality({ i \in DOMAIN log : log[i] = e })

Last(log) == log[Len(log)]

\* The caller holds the session lock: lines 42-100.
InSession(c) == pc[c] \in { "try", "iterate", "loop", "execute", "after", "finally" }

\* The caller's last call of ask() acquired the lock and is over.
Finished(c) == pc[c] = "idle" /\ result[c] \in { "returned", "raised" }

\* The step is one of caller c.
StepOf(c) == << pc[c], events[c], result[c] >>' # << pc[c], events[c], result[c] >>

\* C1: at no time do two callers run the control loop, and whoever runs it
\* holds the session lock; a call of ask() made while the lock is held
\* returns at once ("busy") and changes nothing: no chat clearing, no model
\* call, no action, no event; a call made while the lock is free acquires
\* it, clears the chat and starts a session with SIMULATION_STARTED.
MutualExclusion ==
    /\ [](\A c1, c2 \in Callers : InSession(c1) /\ InSession(c2) => c1 = c2)
    /\ [](\A c \in Callers : InSession(c) => sessionLock)
    /\ [][\A c \in Callers :
            (pc[c] = "idle" /\ sessionLock /\ StepOf(c)) =>
                /\ result'[c] = "busy"
                /\ events'[c] = << >>
                /\ UNCHANGED << pc, sessionLock, simulationLock, chat, llmCalls,
                                actuations, stopCalls, iterations, response >>]_vars
    /\ [][\A c \in Callers :
            (pc[c] = "idle" /\ ~sessionLock /\ StepOf(c)) =>
                /\ sessionLock'
                /\ pc'[c] = "try"
                /\ events'[c] = << SIMULATION_STARTED >>
                /\ chat' = clear_chat(system_instruction)]_vars

\* A call is turned away while another caller is in the middle of a session
\* that has called the model.
BusyWhileRunning ==
    \E c1, c2 \in Callers :
        /\ pc[c1] = "loop" /\ llmCalls[c1] >= 1
        /\ pc[c2] = "idle" /\ result[c2] = "busy"

\* C2: whenever no caller is between the acquisition and line 101, the
\* session lock is free: every call that acquired it has released it by the
\* time it returns or raises.
LockReleasedOnEveryExit ==
    (\A c \in Callers : ~InSession(c)) => ~sessionLock

\* C3: a session that acquired the lock has emitted, when it leaves the try
\* block, exactly one of LLM_GOAL_COMPLETED and SIMULATION_ABORTED (once) and
\* no END_OF_SIMULATION; it emits nothing more up to line 101 and after it
\* END_OF_SIMULATION only, once.
TerminalDisposition ==
    \A c \in Callers :
        /\ pc[c] = "finally" =>
              /\ Count(events[c], LLM_GOAL_COMPLETED)
                   + Count(events[c], SIMULATION_ABORTED) = 1
              /\ Count(events[c], END_OF_SIMULATION) = 0
        /\ pc[c] = "end" => events[c] = << >>
        /\ Finished(c) => events[c] = << END_OF_SIMULATION >>

\* The model was answered every time and never returned COMPLETE, and as
\* many actions as the budget allows passed the safety gate and ran with
\* SUCCESS.
NeverComplete(c) ==
    /\ Count(events[c], LLM_ROBOT_ACTION_COMPLETED) = maxIterations[c]
    /\ response[c].ok /\ response[c].command # "COMPLETE"
    /\ llmCalls[c] = Count(events[c], MESSAGE_RECEIVED_FROM_LLM)

CorrectiveLoop ==
    \A c \in Callers :
        (/\ pc[c] = "finally"
         /\ maxIterations[c] >= 2
         /\ Len(events[c]) >= 4
         /\ events[c][4] = LLM_INVALID_JSON_SCHEMA) =>
            /\ llmCalls[c] >= 2
            /\ (llmCalls[c] = 2 /\ response[c].ok /\ response[c].command = "COMPLETE") =>
                   /\ Count(events[c], LLM_GOAL_COMPLETED) = 1
                   /\ Count(events[c], SIMULATION_ABORTED) = 0
                   /\ Count(events[c], LLM_INVALID_JSON_SCHEMA) = 1

HappyPath ==
    << SIMULATION_STARTED, SENDING_MESSAGE_TO_LLM, MESSAGE_RECEIVED_FROM_LLM,
       LLM_EXECUTING_ROBOT_ACTION, LLM_ROBOT_ACTION_COMPLETED,
       SENDING_MESSAGE_TO_LLM, MESSAGE_RECEIVED_FROM_LLM, LLM_GOAL_COMPLETED,
       END_OF_SIMULATION >>

\* The first reply was a valid action that passed the gate and ran with
\* SUCCESS, the second is a valid COMPLETE, and the budget allows a second
\* iteration (ask's default is 30).
HappyRun(c) ==
    /\ maxIterations[c] >= 2
    /\ llmCalls[c] = 2
    /\ actuations[c] = 1
    /\ response[c].ok /\ response[c].command = "COMPLETE"

CompleteMeansSuccess ==
    \A c \in Callers :
        (pc[c] = "finally" /\ response[c].ok /\ response[c].command = "COMPLETE") =>
            /\ Count(events[c], LLM_GOAL_COMPLETED) = 1
            /\ Count(events[c], LLM_MAX_ITERATIONS_REACHED) = 0
            /\ Count(events[c], SIMULATION_ABORTED) = 0

\* C8: once an execution started by the loop is over, whatever its outcome,
\* robot.stop() has been called exactly once since it began.
GuaranteedStop ==
    \A c \in Callers : actionState[c] = "finished" => stopCalls[c] = 1

\* The action would enter an obstacle: FRONT further than some reading.
Unsafe(action, lidar) ==
    /\ action.command = "FRONT"
    /\ \E i \in DOMAIN lidar : lidar[i] < action.parameter

\* Every reply of the session was answered, was a FRONT and was refused by
\* the gate.
AlwaysUnsafe(c) ==
    /\ Count(events[c], LLM_EXECUTING_ROBOT_ACTION) = 0
    /\ Count(events[c], LLM_INVALID_JSON_SCHEMA) = 0
    /\ response[c].ok /\ response[c].command = "FRONT"
    /\ llmCalls[c] = Count(events[c], MESSAGE_RECEIVED_FROM_LLM)

\* C9: LLM_EXECUTING_ROBOT_ACTION is emitted, and the executor called, only
\* for an action that is not Unsafe on the snapshot read in that iteration;
\* an iteration whose action is Unsafe emits LLM_DANGEROUS_ACTION and the
\* next SENDING_MESSAGE_TO_LLM, goes on to the model call, counts, and moves
\* nothing; a session of Unsafe FRONT replies only ends after maxIterations
\* iterations with as many LLM_DANGEROUS_ACTION and no actuation.
UnsafeNeverExecuted ==
    /\ [](\A c \in Callers :
            pc[c] = "execute" =>
                /\ Last(events[c]) = LLM_EXECUTING_ROBOT_ACTION
                /\ ~Unsafe(response[c], lidarRead[c]))
    /\ [][\A c \in Callers :
            /\ Count(events'[c], LLM_EXECUTING_ROBOT_ACTION)
                   > Count(events[c], LLM_EXECUTING_ROBOT_ACTION)
               => pc'[c] = "execute"
            /\ actuations'[c] > actuations[c] => pc[c] = "execute"]_vars
    /\ [][\A c \in Callers :
            (/\ pc[c] = "loop" /\ pc'[c] # "loop"
             /\ LoopCondition(c) /\ response[c].ok
             /\ Unsafe(response[c], lidarRead'[c])) =>
                /\ events'[c] = events[c] \o << LLM_DANGEROUS_ACTION,
                                                SENDING_MESSAGE_TO_LLM >>
                /\ pc'[c] = "iterate"
                /\ iterations'[c] = iterations[c] + 1
                /\ actuations'[c] = actuations[c]
                /\ actionState'[c] = "none"]_vars
    /\ [](\A c \in Callers :
            (pc[c] = "finally" /\ AlwaysUnsafe(c)) =>
                /\ iterations[c] = maxIterations[c]
                /\ Count(events[c], LLM_DANGEROUS_ACTION) = maxIterations[c]
                /\ actuations[c] = 0)

AllRefused ==
    \E c \in Callers :
        /\ pc[c] = "finally" /\ AlwaysUnsafe(c)
        /\ Count(events[c], LLM_DANGEROUS_ACTION) = 2

MinReading(lidar) ==
    CHOOSE m \in { lidar[i] : i \in DOMAIN lidar } :
        \A j \in DOMAIN lidar : m <= lidar[j]

\* C10: checkSafety returns false exactly when the command is FRONT and the
\* smallest reading is strictly less than the parameter, and true otherwise;
\* in tenths: FRONT 20 on <<15, 15, 15>> is false, FRONT 10 on the same is
\* true, ROTATE_LEFT 900 on <<1>> is true.
SafetyGate ==
    /\ gateVerdict # << >> =>
          /\ gateVerdict[1] \in BOOLEAN
          /\ (gateVerdict[1] = FALSE) <=>
                 (/\ gateAction.command = "FRONT"
                  /\ MinReading(gateLidar) < gateAction.parameter)
    /\ checkSafety(success("FRONT", 20), << 15, 15, 15 >>) = FALSE
    /\ checkSafety(success("FRONT", 10), << 15, 15, 15 >>) = TRUE
    /\ checkSafety(success("ROTATE_LEFT", 900), << 1 >>) = TRUE

GateRefusedFront ==
    /\ gateVerdict = << FALSE >>
    /\ gateAction.command = "FRONT"
    /\ Len(gateLidar) = 2 /\ gateLidar[1] # gateLidar[2]

\* C11: once an ABORT event has been raised during a session, the loop, at
\* the top of its next iteration, starts no model call and no action: it
\* leaves the loop, and the session ends with SIMULATION_ABORTED.
ExternalAbort ==
    /\ [][\A c \in Callers :
            (abortRaised /\ pc[c] = "loop" /\ StepOf(c)) =>
                /\ pc'[c] \in { "after", "finally" }
                /\ llmCalls'[c] = llmCalls[c]
                /\ actuations'[c] = actuations[c]]_vars
    /\ [](\A c \in Callers :
            (abortRaised /\ pc[c] = "finally" /\ error[c] = "none"
                /\ ~(response[c].ok /\ response[c].command = "COMPLETE")) =>
                Count(events[c], SIMULATION_ABORTED) = 1)

RateLimited == "RateLimitError"

\* C12: a call of send_message invokes the model at most 3 times and once
\* per outcome; it goes on after a first and a second rate-limit error only;
\* rate limit, rate limit, reply: it returns the reply, after 3 invocations;
\* three rate limits: it raises the rate-limit error, after 3 invocations;
\* another error at the first invocation: it raises, after 1 invocation; and
\* it raises another error at the invocation that met it.
RetryCeiling ==
    /\ invocations <= 3
    /\ invocations = Len(modelOutcomes)
    /\ sendPc = "invoke" =>
          /\ Len(modelOutcomes) < 3
          /\ \A i \in DOMAIN modelOutcomes : modelOutcomes[i] = RateLimited
    /\ modelOutcomes = << RateLimited, RateLimited, "ok" >> =>
          /\ sendPc = "idle" /\ sendResult = "returned" /\ invocations = 3
          /\ chat = clear_chat(system_instruction) \/ Last(chat) = AnswerMessage
    /\ modelOutcomes = << RateLimited, RateLimited, RateLimited >> =>
          sendPc = "idle" /\ sendResult = RateLimited /\ invocations = 3
    /\ modelOutcomes = << "Error" >> =>
          sendPc = "idle" /\ sendResult = "Error" /\ invocations = 1
    /\ (modelOutcomes # << >> /\ Last(modelOutcomes) = "Error") =>
          sendPc = "idle" /\ sendResult = "Error"
    /\ sendResult = "returned" => Last(modelOutcomes) = "ok"
    /\ sendResult = RateLimited => modelOutcomes = << RateLimited, RateLimited, RateLimited >>

ThirdTrySucceeded ==
    /\ modelOutcomes = << RateLimited, RateLimited, "ok" >>
    /\ sendResult = "returned"
    /\ Last(chat) = AnswerMessage

\* C13: the history never holds more than PruneThreshold messages.
BoundedHistory == Len(chat) <= PruneThreshold

\* C14: while a system instruction is set, the first message of the history
\* is the system message of that instruction and no other message is a
\* system message; without one the history holds no system message; and
\* clear_chat leaves exactly that system message, or nothing.
SystemNeverPruned ==
    /\ [](system_instruction # None =>
            /\ Len(chat) >= 1
            /\ chat[1] = [ role |-> "system", content |-> system_instruction ])
    /\ [](\A i \in DOMAIN chat :
            chat[i].role = "system" => (i = 1 /\ system_instruction # None))
    /\ [][(/\ sendPc = "idle" /\ sendPc' = "idle"
           /\ system_instruction' = system_instruction
           /\ chat' # chat) =>
              chat' = IF system_instruction = None THEN << >>
                      ELSE << [ role |-> "system", content |-> system_instruction ] >>]_vars

\* A send_message that pruned the history of a chat with a system instruction.
PrunedUnderInstruction ==
    /\ system_instruction # None
    /\ sendPc = "invoke" /\ invocations = 0
    /\ chat = << [ role |-> "system", content |-> system_instruction ], UserMessage >>
    /\ passed = chat

\* The roles of h without a leading system message.
Turns(h) ==
    LET r == [ i \in DOMAIN h |-> h[i].role ]
    IN  IF r # << >> /\ r[1] = "system" THEN Tail(r) ELSE r

\* C15: the history handed to the model is an optional system message, then
\* user and assistant turns in strict alternation, the last one the new user
\* turn; and a send_message that is over leaves no unanswered user turn.
AlternatingTurns ==
    /\ sendPc = "invoke" =>
          /\ Turns(chat) # << >>
          /\ \A i \in DOMAIN Turns(chat) :
                Turns(chat)[i] = IF i % 2 = 1 THEN "user" ELSE "ai"
          /\ Last(Turns(chat)) = "user"
    /\ (sendPc = "idle" /\ chat # << >>) => Last(chat).role # "user"

\* C16: a session in which an exception was raised and caught by ask() has
\* SIMULATION_ABORTED exactly once in its log and nothing raised by the except
\* clause, makes no model call and no actuation after the exception, and
\* its ask() ends with END_OF_SIMULATION notified, the session lock released
\* and a normal return.
NoExceptionEscapes ==
    /\ [](\A c \in Callers :
            (pc[c] = "finally" /\ error[c] # "none") =>
                /\ Count(events[c], SIMULATION_ABORTED) = 1
                /\ ~raising[c])
    /\ [][\A c \in Callers :
            (error[c] # "none" /\ StepOf(c)) =>
                /\ llmCalls'[c] <= llmCalls[c]
                /\ actuations'[c] <= actuations[c]
                /\ (pc[c] = "finally") => ~sessionLock'
                /\ (pc[c] = "end") =>
                      /\ events'[c] = << END_OF_SIMULATION >>
                      /\ result'[c] = "returned"]_vars

\* C17: when the robot method of a dispatched command raised on the worker,
\* the loop has emitted LLM_ROBOT_ACTION_FAILED and not
\* LLM_ROBOT_ACTION_COMPLETED for it, and goes to the end of the session
\* without a further prompt.
ActuationFailureEnds ==
    \A c \in Callers :
        actionState[c] = "worker raised" =>
            /\ pc[c] \in { "after", "finally" }
            /\ Last(events[c]) \in { LLM_ROBOT_ACTION_FAILED, SIMULATION_ABORTED }

\* The commands the claim C18 names.
NamedCommands == { "FRONT", "BACK", "ROTATE_LEFT", "ROTATE_RIGHT", "COMPLETE" }

\* C18: a reply that conforms to the schema and whose command is none of
\* NamedCommands is parsed to an ok Result with that command; executing it
\* calls no robot method and no model, and emits LLM_ROBOT_ACTION_FAILED
\* on the way to the end of the loop; the session's log then has
\* SIMULATION_ABORTED after LLM_ROBOT_ACTION_FAILED and no prompt and no reply
\* after it, and END_OF_SIMULATION is notified when the session is left.
UnknownCommandRejected ==
    /\ [](\A r \in ModelReplies :
            (r.form = "bare" /\ r.reasoning /\ r.command \notin NamedCommands) =>
                iterate(r) = success(r.command, r.parameters))
    /\ [][\A c \in Callers :
            (/\ pc[c] = "execute" /\ StepOf(c)
             /\ response[c].command \notin NamedCommands) =>
                /\ actuations'[c] = actuations[c]
                /\ llmCalls'[c] = llmCalls[c]
                /\ events'[c] = Append(events[c], LLM_ROBOT_ACTION_FAILED)
                /\ pc'[c] = "after"]_vars
    /\ [](\A c \in Callers :
            (pc[c] = "finally" /\ Count(events[c], LLM_ROBOT_ACTION_FAILED) > 0) =>
                \E i \in DOMAIN events[c] :
                    /\ events[c][i] = LLM_ROBOT_ACTION_FAILED
                    /\ \E j \in DOMAIN events[c] :
                          j > i /\ events[c][j] = SIMULATION_ABORTED
                    /\ \A j \in DOMAIN events[c] :
                          j > i => events[c][j] \notin
                              { SENDING_MESSAGE_TO_LLM, MESSAGE_RECEIVED_FROM_LLM,
                                LLM_EXECUTING_ROBOT_ACTION, LLM_ROBOT_ACTION_COMPLETED })
    /\ [][\A c \in Callers :
            (pc[c] = "end" /\ StepOf(c)) =>
                events'[c] = << END_OF_SIMULATION >>]_vars

\* A session that was handed an unknown command is about to release the lock.
UnknownCommandAborted ==
    \E c \in Callers :
        /\ pc[c] = "finally"
        /\ response[c].ok /\ response[c].command = "JUMP"
        /\ actuations[c] = 0
        /\ Count(events[c], LLM_ROBOT_ACTION_FAILED) = 1
        /\ Last(events[c]) = SIMULATION_ABORTED

\* No JSON text can be extracted from the text: it has none, or it has one
\* with other text around it and no fence, or its fenced block is cut short
\* by a ``` of the JSON text itself.
FailsExtraction(text) ==
    \/ text.form = "garbage"
    \/ text.form = "bare" /\ text.prose
    \/ text.form = "fenced" /\ text.backticks

\* The JSON text of the reply conforms to the response schema.
Conforms(text) ==
    /\ text.form \in { "bare", "fenced" }
    /\ text.json = "object" /\ text.goal /\ text.reasoning
    /\ text.paramKind \in { "number", "huge" }

\* C19: on every reply text the parsing steps return a Result that is ok
\* with a value and no error, or not ok with an error and no value; a text
\* failing the extraction gives InvalidJSON, an extracted JSON value that
\* violates the schema gives SchemaValidationError.
ParserTotal ==
    parseResult # << >> =>
        LET r == parseResult[1]
        IN  /\ r.ok => (r.error = "none" /\ r.command \in Commands
                            /\ r.parameter \in Parameters)
            /\ ~r.ok => (r.error # "none" /\ r.command = "" /\ r.parameter = 0)
            /\ FailsExtraction(parseText) => r = failure("InvalidJSON")
            /\ (~FailsExtraction(parseText) /\ ~Conforms(parseText)) =>
                  r = failure("SchemaValidationError")

\* A fenced object with a string for action.parameters was refused.
SchemaRefused ==
    /\ parseText.form = "fenced" /\ ~parseText.backticks
    /\ parseText.json = "object" /\ parseText.reasoning
    /\ parseText.paramKind = "string"
    /\ parseResult = << failure("SchemaValidationError") >>

\* C20: a JSON text conforming to the schema, given bare or in a fenced block
\* with or without prose around it, parses to success with its command and
\* its parameters, the same in both forms.
FencedBareIdentical ==
    (/\ parseResult # << >>
     /\ Conforms(parseText)
     /\ parseText.form = "bare" => ~parseText.prose) =>
        /\ parseResult[1] = success(parseText.command, parseText.parameters)
        /\ parseResult[1] =
              iterate([ parseText EXCEPT !.form = "bare", !.prose = FALSE ])

\* C21: a reply object with goal, scene_description and an action with a
\* string command and a number for parameters, and without reasoning, parses
\* to success with that command and parameter.
ReasoningOptional ==
    (/\ parseResult # << >>
     /\ ~FailsExtraction(parseText)
     /\ parseText.json = "object" /\ parseText.goal /\ ~parseText.reasoning
     /\ parseText.paramKind = "number") =>
        parseResult[1] = success(parseText.command, parseText.parameters)

\* C22: the Action Executor is called with a parameter >= 0 only, and an
\* action with a negative parameter is never reported as executing and then
\* completed.
NonNegativeMagnitude ==
    \A c \in Callers :
        /\ pc[c] = "execute" => response[c].parameter >= 0
        /\ (response[c].ok /\ response[c].parameter < 0) =>
              actionState[c] \notin { "started", "finished", "worker raised" }

\* The caller's session has notified SIMULATION_STARTED and not yet
\* END_OF_SIMULATION.
Streaming(c) == InSession(c) \/ pc[c] = "end"

\* C23: no session notifies SIMULATION_STARTED between another session's
\* SIMULATION_STARTED and that session's END_OF_SIMULATION: at most one
\* caller's event stream is open, and the caller whose stream is open holds
\* the session lock.
SessionSpansEnd ==
    /\ \A c, d \in Callers : (Streaming(c) /\ Streaming(d)) => c = d
    /\ \A c \in Callers : Streaming(c) => sessionLock

\* C24: notify raises nothing, also for an event type nobody is subscribed
\* to, whether or not subscribe was ever called for it.
ZeroSubscribers == busExc = "none"

\* C25: notify calls the handlers subscribed to the event type when it
\* began, each once per subscription, in the order of subscription, and no
\* other handler.
DispatchOrder ==
    (lastNotify.type # "none" /\ busExc = "none") => calls = lastNotify.before

\* C26: when a handler unsubscribes during the delivery, every other handler
\* subscribed to the event type when notify began is still called, once per
\* subscription.
SelfUnsubscriptionSafe ==
    (lastNotify.type # "none"
        /\ Range(lastNotify.before) \cap SelfUnsubscribing # {}) =>
        \A h \in Handlers \ SelfUnsubscribing :
            Count(calls, h) = Count(lastNotify.before, h)

\* C27: a handler unsubscribe() returned for, and not subscribed again since,
\* is on no list and is called by no later notify.
UnsubscribeEverywhere ==
    \A h \in removed :
        /\ \A t \in DOMAIN observers : h \notin Range(observers[t])
        /\ h \notin Range(calls)

\* C28: with main.py's subscriptions simulationLock is held while a session
\* runs its loop and free when no call of ask() is under way, and no handler
\* raises: no call of ask() is left, or about to be left, by an exception.
SimulationLockTracks ==
    /\ \A c \in Callers :
          pc[c] \in { "try", "iterate", "loop", "execute", "after" } => simulationLock
    /\ (\A c \in Callers : pc[c] = "idle") => ~simulationLock
    /\ \A c \in Callers : ~raising[c] /\ result[c] # "raised"

\* C29: no two batches run at the same time, and batchLock is held only
\* while a batch runs, so that a call made after a batch has finished starts
\* a new one.
BatchLockLiveness ==
    /\ \A g, h \in BatchCallers :
          (batchPc[g] = "running" /\ batchPc[h] = "running") => g = h
    /\ batchLock => \E g \in BatchCallers : batchPc[g] = "running"
    /\ \A g \in BatchCallers :
          batchResult[g] = "ignored" => \E h \in BatchCallers : batchPc[h] = "running"

\* C30: while the simulation steps, the loop of reach is left, with the
\* wheel speeds at 0, once the measured value reaches the target: the loop is
\* never found running with the measured value beyond the target's tolerance.
BoundedMotion ==
    /\ wheelPc = "reach" => wheelActual < wheelTarget + TOLERANCE
    /\ wheelPc = "done" => (wheelSpeed = "zero" /\ Reached(wheelActual, wheelTarget))

=============================================================================
